---- MODULE Spec2Model ----
(***************************************************************************)
(* Model of the compilation-unit graph builder (folly/src/main.rs,         *)
(* folly/src/intrusive_hashmap.rs).                                        *)
(*                                                                         *)
(* Strings are sequences of one-character strings.  Positions follow the   *)
(* source: they are 0-based and ranges are half-open, so the Rust slice    *)
(* s[a..b] is Slice(s, a, b).  Option<usize> is an integer with NoPos for  *)
(* None.                                                                   *)
(***************************************************************************)
EXTENDS Integers, Sequences, FiniteSets, TLC

\* ------------------------------------------------------------------------
\* str primitives used by the source
\* ------------------------------------------------------------------------

NoPos == 0 - 1

UpperChars ==
  <<"A", "B", "C", "D", "E", "F", "G", "H", "I", "J", "K", "L", "M",
    "N", "O", "P", "Q", "R", "S", "T", "U", "V", "W", "X", "Y", "Z">>

LowerChars ==
  <<"a", "b", "c", "d", "e", "f", "g", "h", "i", "j", "k", "l", "m",
    "n", "o", "p", "q", "r", "s", "t", "u", "v", "w", "x", "y", "z">>

IsUpper(c) == \E i \in DOMAIN UpperChars : UpperChars[i] = c

IsLower(c) == \E i \in DOMAIN LowerChars : LowerChars[i] = c

\* char::to_lowercase on the ASCII range
LowerOf(c) ==
  IF IsUpper(c)
    THEN LowerChars[CHOOSE i \in DOMAIN UpperChars : UpperChars[i] = c]
    ELSE c

\* str::to_lowercase
to_lowercase(s) == [i \in 1..Len(s) |-> LowerOf(s[i])]

\* &s[a..b]; Rust panics unless SliceOk(s, a, b)
Slice(s, a, b) == SubSeq(s, a + 1, b)

SliceOk(s, a, b) == 0 <= a /\ a <= b /\ b <= Len(s)

\* str::starts_with / str::ends_with
starts_with(s, p) == Len(p) <= Len(s) /\ SubSeq(s, 1, Len(p)) = p

ends_with(s, p) ==
  Len(p) <= Len(s) /\ SubSeq(s, Len(s) - Len(p) + 1, Len(s)) = p

\* str::trim_end_matches: the suffix is removed repeatedly
RECURSIVE trim_end_matches(_, _)
trim_end_matches(s, p) ==
  IF Len(p) > 0 /\ ends_with(s, p)
    THEN trim_end_matches(SubSeq(s, 1, Len(s) - Len(p)), p)
    ELSE s

\* str::find(char): position of the first occurrence
find(s, c) ==
  IF \E i \in 1..Len(s) : s[i] = c
    THEN (CHOOSE i \in 1..Len(s) : s[i] = c /\ \A j \in 1..(i - 1) : s[j] # c) - 1
    ELSE NoPos

\* str::rfind(char): position of the last occurrence
rfind(s, c) ==
  IF \E i \in 1..Len(s) : s[i] = c
    THEN (CHOOSE i \in 1..Len(s) :
            s[i] = c /\ \A j \in (i + 1)..Len(s) : s[j] # c) - 1
    ELSE NoPos

\* ------------------------------------------------------------------------
\* literals of the source
\* ------------------------------------------------------------------------

s_include == <<"#", "i", "n", "c", "l", "u", "d", "e">>
s_folly == <<"f", "o", "l", "l", "y">>
s_test_cpp == <<"t", "e", "s", "t", ".", "c", "p", "p">>
s_test_cc == <<"t", "e", "s", "t", ".", "c", "c">>
s_cpp == <<".", "c", "p", "p">>
s_cc == <<".", "c", "c">>
s_inl_h == <<"-", "i", "n", "l", ".", "h">>
s_h == <<".", "h">>

\* ------------------------------------------------------------------------
\* Name Normalizer
\* ------------------------------------------------------------------------

get_char_type(c) ==
  IF c = "_" THEN "DELIM"
  ELSE IF IsLower(c) THEN "LOWER"
  ELSE IF IsUpper(c) THEN "UPPER"
  ELSE "REGULAR"

\* camel_loop without the test that the word before the last capital has
\* at least one character
RECURSIVE camel_loop_split_single(_, _, _, _, _)
camel_loop_split_single(string, i, prev_char, word_start, snake_string) ==
  IF i >= Len(string)
    THEN snake_string \o to_lowercase(Slice(string, word_start, Len(string)))
    ELSE
      LET c == string[i + 1]
          curr_char == get_char_type(c)
      IN
        IF curr_char = "DELIM"
          THEN camel_loop_split_single(string, i + 1, curr_char, i,
                 (snake_string \o to_lowercase(Slice(string, word_start, i)))
                   \o <<c>>)
        ELSE IF prev_char = "DELIM"
          THEN camel_loop_split_single(string, i + 1, curr_char, i,
                 snake_string)
        ELSE IF prev_char \in {"LOWER", "REGULAR"} /\ curr_char = "UPPER"
          THEN camel_loop_split_single(string, i + 1, curr_char, i,
                 (snake_string \o to_lowercase(Slice(string, word_start, i)))
                   \o <<"_">>)
        ELSE IF prev_char = "UPPER" /\ curr_char = "LOWER"
          THEN camel_loop_split_single(string, i + 1, curr_char, i - 1,
                 (snake_string
                    \o to_lowercase(Slice(string, word_start, i - 1)))
                   \o <<"_">>)
        ELSE camel_loop_split_single(string, i + 1, curr_char, word_start,
               snake_string)

\* the body of the for loop of camel_to_snake at position i, then the rest of
\* the loop, then the final append
RECURSIVE camel_loop(_, _, _, _, _)
camel_loop(string, i, prev_char, word_start, snake_string) ==
  IF i >= Len(string)
    THEN snake_string \o to_lowercase(Slice(string, word_start, Len(string)))
    ELSE
      LET c == string[i + 1]
          curr_char == get_char_type(c)
      IN
        IF curr_char = "DELIM"
          THEN camel_loop(string, i + 1, curr_char, i,
                 (snake_string \o to_lowercase(Slice(string, word_start, i)))
                   \o <<c>>)
        ELSE IF prev_char = "DELIM"
          THEN camel_loop(string, i + 1, curr_char, i, snake_string)
        ELSE IF prev_char \in {"LOWER", "REGULAR"} /\ curr_char = "UPPER"
          THEN camel_loop(string, i + 1, curr_char, i,
                 (snake_string \o to_lowercase(Slice(string, word_start, i)))
                   \o <<"_">>)
        ELSE IF prev_char = "UPPER" /\ curr_char = "LOWER"
                  /\ word_start < i - 1
          THEN camel_loop(string, i + 1, curr_char, i - 1,
                 (snake_string
                    \o to_lowercase(Slice(string, word_start, i - 1)))
                   \o <<"_">>)
        ELSE camel_loop(string, i + 1, curr_char, word_start, snake_string)

camel_to_snake(string) == camel_loop(string, 0, "DELIM", 0, <<>>)

\* the suffix table with the plain suffixes tried first
suffixes_plain_first ==
  << <<s_cpp, "SOURCE">>, <<s_cc, "SOURCE">>,
     <<s_test_cpp, "TEST">>, <<s_test_cc, "TEST">>,
     <<s_h, "HEADER">>, <<s_inl_h, "TEMPLATE">> >>

\* the suffix table of strip_file_name, in the order the code tries it
suffixes ==
  << <<s_test_cpp, "TEST">>, <<s_test_cc, "TEST">>,
     <<s_cpp, "SOURCE">>, <<s_cc, "SOURCE">>,
     <<s_inl_h, "TEMPLATE">>, <<s_h, "HEADER">> >>

RECURSIVE strip_file_name_from(_, _)
strip_file_name_from(file_name, n) ==
  IF n > Len(suffixes)
    THEN [name |-> file_name, file_type |-> "UNKNOWN"]
    ELSE IF ends_with(file_name, suffixes[n][1])
      THEN [name |-> camel_to_snake(
                       trim_end_matches(file_name, suffixes[n][1])),
            file_type |-> suffixes[n][2]]
      ELSE strip_file_name_from(file_name, n + 1)

\* strip_file_name with the fall-through arm filing the name as a header
strip_file_name_unknown_as_header(file_name) ==
  LET r == strip_file_name_from(file_name, 1) IN
    IF r.file_type = "UNKNOWN"
      THEN [name |-> camel_to_snake(file_name), file_type |-> "HEADER"]
      ELSE r

strip_file_name(file_name) == strip_file_name_from(file_name, 1)

\* ------------------------------------------------------------------------
\* Include Resolver
\* ------------------------------------------------------------------------

UnitKey(name, root_dir) == [name |-> name, root_dir |-> root_dir]

NoKey == UnitKey(<<>>, <<>>)

\* Option<(UnitKey, HeaderLib)>, with the panic of a failed slice or of
\* assert!(false, ..) as a third outcome
IncludeNone == [tag |-> "None", key |-> NoKey, hlib |-> "UNKNOWN"]
IncludePanic == [tag |-> "Panic", key |-> NoKey, hlib |-> "UNKNOWN"]
IncludeSome(key, hlib) == [tag |-> "Some", key |-> key, hlib |-> hlib]

\* extract_unit without the removal of the header suffixes
extract_unit_keep_suffix(line, start, end) ==
  IF ~SliceOk(line, start, end)
    THEN IncludePanic
    ELSE
      LET path == Slice(line, start, end)
          first == find(path, "/")
          root_seg == IF first = NoPos THEN path ELSE Slice(path, 0, first)
          last == rfind(path, "/")
          key == IF last = NoPos
                   THEN UnitKey(camel_to_snake(path), <<>>)
                   ELSE UnitKey(
                          camel_to_snake(Slice(path, last + 1, Len(path))),
                          Slice(path, 0, last))
      IN IncludeSome(key, IF root_seg = s_folly THEN "FOLLY" ELSE "UNKNOWN")

\* the closure extract_unit of strip_include
extract_unit(line, start, end) ==
  IF ~SliceOk(line, start, end)
    THEN IncludePanic
    ELSE
      LET path == trim_end_matches(
                    trim_end_matches(Slice(line, start, end), s_inl_h), s_h)
          first == find(path, "/")
          root == IF first = NoPos THEN path ELSE Slice(path, 0, first)
          last == rfind(path, "/")
          key == IF last = NoPos
                   THEN UnitKey(camel_to_snake(path), <<>>)
                   ELSE UnitKey(
                          camel_to_snake(Slice(path, last + 1, Len(path))),
                          Slice(path, 0, last))
      IN IncludeSome(key, IF root = s_folly THEN "FOLLY" ELSE "UNKNOWN")

\* strip_include with the two asserts removed: a malformed include is None
strip_include_no_assert(line) ==
  IF ~starts_with(line, s_include)
    THEN IncludeNone
    ELSE
      LET lt == find(line, "<") IN
        IF lt # NoPos
          THEN LET gt == find(line, ">") IN
                 IF gt # NoPos
                   THEN extract_unit(line, lt + 1, gt)
                   ELSE IncludeNone
          ELSE LET q == find(line, "\"") IN
                 IF q # NoPos
                   THEN LET end == find(Slice(line, q + 1, Len(line)), "\"")
                        IN IF end # NoPos
                             THEN extract_unit(line, q + 1, end)
                             ELSE IncludeNone
                   ELSE IncludeNone

strip_include(line) ==
  IF ~starts_with(line, s_include)
    THEN IncludeNone
    ELSE
      LET lt == find(line, "<") IN
        IF lt # NoPos
          THEN LET gt == find(line, ">") IN
                 IF gt # NoPos
                   THEN extract_unit(line, lt + 1, gt)
                   ELSE IncludePanic
          ELSE LET q == find(line, "\"") IN
                 IF q # NoPos
                   THEN LET end == find(Slice(line, q + 1, Len(line)), "\"")
                        IN IF end # NoPos
                             THEN extract_unit(line, q + 1, end)
                             ELSE IncludePanic
                   ELSE IncludeNone

\* ------------------------------------------------------------------------
\* std::path::Path, on the paths the tree walk produces
\* ------------------------------------------------------------------------

\* Path::join / DirEntry::path
path_join(base, name) == (base \o <<"/">>) \o name

\* Path::file_name: the last component
path_file_name(path) ==
  LET last == rfind(path, "/") IN
    IF last = NoPos THEN path ELSE Slice(path, last + 1, Len(path))

\* Path::parent: the path without its last component
path_parent(path) ==
  LET last == rfind(path, "/") IN
    IF last = NoPos THEN <<>>
    ELSE IF last = 0 THEN <<"/">>
    ELSE Slice(path, 0, last)

\* ------------------------------------------------------------------------
\* Shared Node Store
\* ------------------------------------------------------------------------

\* IntrusiveRefCell::from(key): the key and a Default payload.  borrow is
\* the flag of the RefCell around the payload: 0 when no borrow is live,
\* -1 while a RefMut lives
NewNode(key) ==
  [key |-> key, borrow |-> 0, headers |-> <<>>, srcs |-> <<>>,
   deps |-> {}, reverse_deps |-> {}]

\* RefCell::borrow_mut panics (BorrowMutError) when a borrow is live
already_borrowed(h, obj) == h[obj].borrow # 0

\* RefCell::borrow_mut, and the drop of the RefMut
borrow_mut(h, obj) == [h EXCEPT ![obj].borrow = 0 - 1]

drop_ref_mut(h, obj) == [h EXCEPT ![obj].borrow = 0]

\* HashSet::contains / HashSet::get on a set of handles: Hash and Eq of
\* HashWrap, Rc and IntrusiveRefCell all delegate to the key
set_contains(h, set, key) == \E m \in set : h[m].key = key

set_get(h, set, key) == CHOOSE m \in set : h[m].key = key

\* HashSet::insert of a handle: no change when an equal (same key) member
\* is present
set_insert(h, set, obj) ==
  IF set_contains(h, set, h[obj].key) THEN set ELSE set \cup {obj}

\* extract_with_create without the lookup: every call allocates a node
extract_with_create_always_new(h, s, key) ==
  LET val == Len(h) + 1
      h2 == Append(h, NewNode(key))
  IN [heap |-> h2, store |-> set_insert(h2, s, val), obj |-> val]

\* extract_with_create that hands out the existing node with its payload
\* reset to the default
extract_with_create_reset(h, s, key) ==
  IF set_contains(h, s, key)
    THEN LET val == set_get(h, s, key)
         IN [heap |-> [h EXCEPT ![val] = NewNode(key)], store |-> s,
             obj |-> val]
    ELSE LET val == Len(h) + 1
             h2 == Append(h, NewNode(key))
         IN [heap |-> h2, store |-> set_insert(h2, s, val), obj |-> val]

\* extract_with_create on heap h and store s; obj is the returned handle
extract_with_create(h, s, key) ==
  IF set_contains(h, s, key)
    THEN [heap |-> h, store |-> s, obj |-> set_get(h, s, key)]
    ELSE LET val == Len(h) + 1
             h2 == Append(h, NewNode(key))
         IN [heap |-> h2, store |-> set_insert(h2, s, val), obj |-> val]

\* ------------------------------------------------------------------------
\* The file trees the program is run on
\* ------------------------------------------------------------------------

RootRelative == <<"f", "o", "l", "l", "y">>

RootAsMain ==
  <<"/", "U", "s", "e", "r", "s", "/", "v", "i", "c", "t", "o", "r", "i", "a",
    "/", "f", "o", "l", "l", "y", "/", "f", "o", "l", "l", "y">>

RootPaths == {RootRelative, RootAsMain}

IncludeAngle(P) == ((s_include \o <<" ", "<">>) \o P) \o <<">">>
IncludeQuote(P) == ((s_include \o <<" ", "\"">>) \o P) \o <<"\"">>
IncludeUnclosed(P) == (s_include \o <<" ", "<">>) \o P
IncludeQuoteUnclosed(P) == (s_include \o <<" ", "\"">>) \o P

f_Foo_h == <<"F", "o", "o", ".", "h">>
f_Foo_cpp == <<"F", "o", "o", ".", "c", "p", "p">>
f_Bar_h == <<"B", "a", "r", ".", "h">>
f_notes == <<"n", "o", "t", "e", "s", ".", "t", "x", "t">>
f_A_h == <<"A", ".", "h">>
f_B_h == <<"B", ".", "h">>
f_C_h == <<"C", ".", "h">>
f_D_h == <<"D", ".", "h">>
d_io == <<"i", "o">>
f_Baz_h == <<"B", "a", "z", ".", "h">>
f_Foo_inl_h == <<"F", "o", "o", "-", "i", "n", "l", ".", "h">>
f_FooTest_cpp == <<"F", "o", "o", "T", "e", "s", "t", ".", "c", "p", "p">>

InLib(rel) == (s_folly \o <<"/">>) \o rel

l_inc_Foo == IncludeAngle(InLib(f_Foo_h))
l_inc_Bar == IncludeAngle(InLib(f_Bar_h))
l_inc_A == IncludeAngle(InLib(f_A_h))
l_inc_B == IncludeAngle(InLib(f_B_h))
l_inc_C == IncludeAngle(InLib(f_C_h))
l_inc_Baz == IncludeAngle(InLib(path_join(d_io, f_Baz_h)))
l_inc_vector == IncludeAngle(<<"v", "e", "c", "t", "o", "r">>)
l_inc_Foo_unclosed == IncludeUnclosed(InLib(f_Foo_h))
l_inc_Bar_quoted == IncludeQuote(f_Bar_h)
l_inc_Bar_quote_unclosed == IncludeQuoteUnclosed(f_Bar_h)
l_inc_folly_h == IncludeAngle(s_folly \o s_h)
l_plain == <<"i", "n", "t", " ", "x", ";">>

\* a file: File::open succeeds or not, and the lines read from it
Readable(lines) == [readable |-> TRUE, lines |-> lines]
Unreadable == [readable |-> FALSE, lines |-> <<>>]

Contents ==
  { Readable(<<>>),
    Readable(<<l_inc_Foo>>),
    Readable(<<l_inc_Bar>>),
    Readable(<<l_inc_Foo, l_inc_Bar>>),
    Readable(<<l_inc_vector, l_plain>>),
    Readable(<<l_inc_Foo_unclosed, l_inc_Bar>>),
    Readable(<<l_inc_Bar_quoted>>),
    Unreadable }

\* a file of the tree is named by its components below the root
FileUniverse == { <<f_Foo_h>>, <<f_Foo_cpp>>, <<f_Bar_h>>, <<f_notes>> }

MaxFiles == 3

GenericTrees ==
  UNION { [S -> Contents] :
            S \in {T \in SUBSET FileUniverse : Cardinality(T) <= MaxFiles} }

\* Foo.h, Foo.cpp and Bar.h of the end-to-end scenario
EndToEndTree ==
  ( <<f_Foo_h>> :> Readable(<<>>) )
    @@ ( <<f_Foo_cpp>> :> Readable(<<l_inc_Foo, l_inc_Bar>>) )
    @@ ( <<f_Bar_h>> :> Readable(<<l_inc_Foo>>) )

\* A -> B -> C -> A, and D -> A
CycleTree ==
  ( <<f_A_h>> :> Readable(<<l_inc_B>>) )
    @@ ( <<f_B_h>> :> Readable(<<l_inc_C>>) )
    @@ ( <<f_C_h>> :> Readable(<<l_inc_A>>) )
    @@ ( <<f_D_h>> :> Readable(<<l_inc_A>>) )

\* a subdirectory: io/Baz.h and Foo.h include each other
SubdirTree ==
  ( <<d_io, f_Baz_h>> :> Readable(<<l_inc_Foo>>) )
    @@ ( <<f_Foo_h>> :> Readable(<<l_inc_Baz>>) )

\* the header, the template header, the source and the test source of Foo
RoleTree ==
  ( <<f_Foo_h>> :> Readable(<<>>) )
    @@ ( <<f_Foo_inl_h>> :> Readable(<<l_inc_Foo>>) )
    @@ ( <<f_Foo_cpp>> :> Readable(<<l_inc_Foo>>) )
    @@ ( <<f_FooTest_cpp>> :> Readable(<<l_inc_Foo>>) )

\* a quoted include without its closing quote between two good includes
MalformedTree ==
  ( <<f_Foo_h>> :>
      Readable(<<l_inc_Bar, l_inc_Bar_quote_unclosed, l_inc_Foo>>) )
    @@ ( <<f_Bar_h>> :> Readable(<<l_inc_Foo>>) )

\* an include of a header outside the library whose name is the library's
ExternalTree ==
  ( <<f_Foo_h>> :> Readable(<<l_inc_folly_h, l_inc_Bar>>) )
    @@ ( <<f_Bar_h>> :> Readable(<<l_inc_vector>>) )

Trees ==
  GenericTrees
    \cup {EndToEndTree, CycleTree, SubdirTree, RoleTree, MalformedTree,
          ExternalTree}

\* ------------------------------------------------------------------------
\* State
\* ------------------------------------------------------------------------

VARIABLES
  root,    \* the path main passes to add_initial_subtree
  tree,    \* the files below root: components below root -> file
  stack,   \* the add_initial_subtree calls in progress: per directory,
           \* the entries read_dir has still to yield
  heap,    \* the IntrusiveRefCell allocations; a handle (Rc) is an index
  store,   \* dict: the handles the HashSet holds
  curr,    \* the add_dependency_edges call in progress
  pc,      \* where main is
  signal,  \* the message main printed
  phases,  \* the phases main has started, in the order it started them
  panic,   \* the panic that ended the run
  fn_op,   \* the function the last direct call applied
  fn_arg,  \* its argument
  fn_res   \* its result

vars ==
  <<root, tree, stack, heap, store, curr, pc, signal, phases, panic,
    fn_op, fn_arg, fn_res>>

graph_vars ==
  <<root, tree, stack, heap, store, curr, pc, signal, phases, panic>>

fn_vars == <<fn_op, fn_arg, fn_res>>

NoCurr == [file |-> <<>>, node |-> 0, line |-> 0]

NoRes == [snake |-> <<>>,
          file |-> [name |-> <<>>, file_type |-> "UNKNOWN"],
          include |-> IncludeNone]

\* read_dir of the directory with components dir
Entries(dir) ==
  { SubSeq(q, 1, Len(dir) + 1) :
      q \in {r \in DOMAIN tree :
               Len(r) > Len(dir) /\ SubSeq(r, 1, Len(dir)) = dir} }

\* every directory and file below the root
AllEntries ==
  UNION { { SubSeq(q, 1, n) : n \in 1..Len(q) } : q \in DOMAIN tree }

\* Path::is_dir
is_dir(entry) == entry \notin DOMAIN tree

\* the path add_initial_subtree is called with for an entry
RECURSIVE PathOf(_)
PathOf(entry) ==
  IF entry = <<>> THEN root
  ELSE path_join(PathOf(SubSeq(entry, 1, Len(entry) - 1)),
                 entry[Len(entry)])

Init ==
  /\ root \in RootPaths
  /\ tree \in Trees
  /\ stack = <<>>
  /\ heap = <<>>
  /\ store = {}
  /\ curr = NoCurr
  /\ pc = "start"
  /\ signal = "none"
  /\ phases = <<>>
  /\ panic = "none"
  /\ fn_op = "none"
  /\ fn_arg = <<>>
  /\ fn_res = NoRes

\* ------------------------------------------------------------------------
\* Graph Builder
\* ------------------------------------------------------------------------

\* insert_edges without the insertion into reverse_deps
insert_edges_forward_only(h, curr_node, dep_node) ==
  IF already_borrowed(h, curr_node)
    THEN [heap |-> h, panic |-> "BorrowMutError"]
    ELSE LET h1 == borrow_mut(h, curr_node)
             h2 == [h1 EXCEPT ![curr_node].deps = set_insert(h1, @, dep_node)]
         IN [heap |-> drop_ref_mut(h2, curr_node), panic |-> "none"]

\* lines 112-117: the mirrored pair of insertions; each statement borrows
\* one payload mutably and drops the RefMut at its end
insert_edges(h, curr_node, dep_node) ==
  IF already_borrowed(h, dep_node)
    THEN [heap |-> h, panic |-> "BorrowMutError"]
    ELSE
      LET h1 == borrow_mut(h, dep_node)
          h2 == [h1 EXCEPT
                   ![dep_node].reverse_deps = set_insert(h1, @, curr_node)]
          h3 == drop_ref_mut(h2, dep_node)
      IN IF already_borrowed(h3, curr_node)
           THEN [heap |-> h3, panic |-> "BorrowMutError"]
           ELSE
             LET h4 == borrow_mut(h3, curr_node)
                 h5 == [h4 EXCEPT
                          ![curr_node].deps = set_insert(h4, @, dep_node)]
             IN [heap |-> drop_ref_mut(h5, curr_node), panic |-> "none"]

\* process_line without the comparison of dep_key with curr_node.key
process_line_no_self_check(h, s, curr_node, line) ==
  LET inc == strip_include(line) IN
    IF inc.tag = "Panic"
      THEN [heap |-> h, store |-> s, panic |-> "strip_include"]
    ELSE IF inc.tag = "None" \/ inc.hlib # "FOLLY"
      THEN [heap |-> h, store |-> s, panic |-> "none"]
    ELSE LET r == extract_with_create(h, s, inc.key)
             e == insert_edges(r.heap, curr_node, r.obj)
         IN [heap |-> e.heap, store |-> r.store, panic |-> e.panic]

\* one iteration of the loop of add_dependency_edges, on heap h and store s
process_line(h, s, curr_node, line) ==
  LET inc == strip_include(line) IN
    IF inc.tag = "Panic"
      THEN [heap |-> h, store |-> s, panic |-> "strip_include"]
    ELSE IF inc.tag = "None" \/ inc.key = h[curr_node].key
                             \/ inc.hlib # "FOLLY"
      THEN [heap |-> h, store |-> s, panic |-> "none"]
    ELSE LET r == extract_with_create(h, s, inc.key)
             e == insert_edges(r.heap, curr_node, r.obj)
         IN [heap |-> e.heap, store |-> r.store, panic |-> e.panic]

\* push_file with the RefMut bound to a variable that lives on into
\* add_dependency_edges
push_file_keep_borrow(h, curr_node, file_name, file_type) ==
  IF already_borrowed(h, curr_node)
    THEN [heap |-> h, panic |-> "BorrowMutError"]
    ELSE
      LET h1 == borrow_mut(h, curr_node)
      IN [heap |-> IF file_type \in {"TEMPLATE", "HEADER"}
                     THEN [h1 EXCEPT
                             ![curr_node].headers = Append(@, file_name)]
                     ELSE [h1 EXCEPT
                             ![curr_node].srcs = Append(@, file_name)],
          panic |-> "none"]

\* lines 166-176: the file name goes to headers or to srcs, through a RefMut
\* that lives for the statement
push_file(h, curr_node, file_name, file_type) ==
  IF already_borrowed(h, curr_node)
    THEN [heap |-> h, panic |-> "BorrowMutError"]
    ELSE
      LET h1 == borrow_mut(h, curr_node)
          h2 == IF file_type \in {"TEMPLATE", "HEADER"}
                  THEN [h1 EXCEPT ![curr_node].headers = Append(@, file_name)]
                  ELSE [h1 EXCEPT ![curr_node].srcs = Append(@, file_name)]
      IN [heap |-> drop_ref_mut(h2, curr_node), panic |-> "none"]

Top == stack[Len(stack)]

Visited(entry) == [stack EXCEPT ![Len(stack)].todo = @ \ {entry}]

\* main calls add_initial_subtree(root); root is a directory
main_populate ==
  /\ pc = "start"
  /\ stack' = << [dir |-> <<>>, todo |-> Entries(<<>>)] >>
  /\ pc' = "populate"
  /\ phases' = Append(phases, "populate")
  /\ UNCHANGED <<root, tree, heap, store, curr, signal, panic>>
  /\ UNCHANGED fn_vars

\* add_initial_subtree on a child that is a directory
add_initial_subtree(entry) ==
  /\ pc = "populate" /\ curr = NoCurr /\ stack # <<>>
  /\ entry \in Top.todo
  /\ is_dir(entry)
  /\ stack' = Append(Visited(entry), [dir |-> entry, todo |-> Entries(entry)])
  /\ UNCHANGED <<root, tree, heap, store, curr, pc, signal, phases, panic>>
  /\ UNCHANGED fn_vars

\* add_initial_subtree on a child that is a file: add_node up to the point
\* where add_dependency_edges has opened the file
add_node(entry) ==
  /\ pc = "populate" /\ curr = NoCurr /\ stack # <<>>
  /\ entry \in Top.todo
  /\ ~is_dir(entry)
  /\ LET file_path == PathOf(entry)
         file_name == path_file_name(file_path)
         stripped == strip_file_name(file_name)
         curr_key == UnitKey(stripped.name, path_parent(file_path))
         r == extract_with_create(heap, store, curr_key)
         p == push_file(r.heap, r.obj, file_name, stripped.file_type)
     IN IF stripped.file_type = "UNKNOWN"
          THEN /\ stack' = Visited(entry)
               /\ UNCHANGED <<heap, store, curr, pc, panic>>
          ELSE /\ heap' = p.heap
               /\ store' = r.store
               /\ panic' = p.panic
               /\ IF p.panic # "none"
                    THEN /\ curr' = NoCurr
                         /\ stack' = stack
                         /\ pc' = "panicked"
                    ELSE IF tree[entry].readable
                    THEN /\ curr' = [file |-> entry, node |-> r.obj,
                                     line |-> 0]
                         /\ stack' = Visited(entry)
                         /\ pc' = pc
                    ELSE \* File::open fails: every caller returns the Err
                         /\ curr' = NoCurr
                         /\ stack' = <<>>
                         /\ pc' = "populate_err"
  /\ UNCHANGED <<root, tree, signal, phases>>
  /\ UNCHANGED fn_vars

\* the next line of the file add_dependency_edges is reading
add_dependency_edges_line ==
  /\ pc = "populate" /\ curr # NoCurr
  /\ curr.line < Len(tree[curr.file].lines)
  /\ LET r == process_line(heap, store, curr.node,
                           tree[curr.file].lines[curr.line + 1])
     IN /\ heap' = r.heap
        /\ store' = r.store
        /\ panic' = r.panic
        /\ IF r.panic # "none"
             THEN pc' = "panicked" /\ curr' = curr
             ELSE pc' = pc /\ curr' = [curr EXCEPT !.line = @ + 1]
  /\ UNCHANGED <<root, tree, stack, signal, phases>>
  /\ UNCHANGED fn_vars

\* the file is exhausted: add_dependency_edges and add_node return Ok
add_dependency_edges_return ==
  /\ pc = "populate" /\ curr # NoCurr
  /\ curr.line = Len(tree[curr.file].lines)
  /\ curr' = NoCurr
  /\ UNCHANGED <<root, tree, stack, heap, store, pc, signal, phases, panic>>
  /\ UNCHANGED fn_vars

\* read_dir is exhausted: this add_initial_subtree call returns Ok
add_initial_subtree_return ==
  /\ pc = "populate" /\ curr = NoCurr /\ stack # <<>>
  /\ Top.todo = {}
  /\ stack' = SubSeq(stack, 1, Len(stack) - 1)
  /\ pc' = IF Len(stack) = 1 THEN "populated" ELSE pc
  /\ UNCHANGED <<root, tree, heap, store, curr, signal, phases, panic>>
  /\ UNCHANGED fn_vars

\* ------------------------------------------------------------------------
\* The later phases and main
\* ------------------------------------------------------------------------

collapse_cycles(h, s) == [result |-> "Ok", heap |-> h, store |-> s]

generate_compilation_trie(h, s) == [result |-> "Ok", heap |-> h, store |-> s]

write_build_files == "Ok"

main_populate_failed ==
  /\ pc = "populate_err"
  /\ signal' = "populate_failed"
  /\ pc' = "done"
  /\ UNCHANGED <<root, tree, stack, heap, store, curr, phases, panic>>
  /\ UNCHANGED fn_vars

main_collapse ==
  /\ pc = "populated"
  /\ phases' = Append(phases, "collapse")
  /\ LET r == collapse_cycles(heap, store)
     IN /\ heap' = r.heap
        /\ store' = r.store
        /\ IF r.result = "Ok"
             THEN pc' = "collapsed" /\ signal' = signal
             ELSE pc' = "done" /\ signal' = "collapse_failed"
  /\ UNCHANGED <<root, tree, stack, curr, panic>>
  /\ UNCHANGED fn_vars

main_trie ==
  /\ pc = "collapsed"
  /\ phases' = Append(phases, "trie")
  /\ LET r == generate_compilation_trie(heap, store)
     IN /\ heap' = r.heap
        /\ store' = r.store
        /\ IF r.result = "Ok"
             THEN pc' = "trie" /\ signal' = signal
             ELSE pc' = "done" /\ signal' = "trie_failed"
  /\ UNCHANGED <<root, tree, stack, curr, panic>>
  /\ UNCHANGED fn_vars

main_write ==
  /\ pc = "trie"
  /\ signal' = IF write_build_files = "Ok" THEN "success" ELSE "write_failed"
  /\ pc' = "done"
  /\ phases' = Append(phases, "write")
  /\ UNCHANGED <<root, tree, stack, heap, store, curr, panic>>
  /\ UNCHANGED fn_vars

Next ==
  \/ main_populate
  \/ \E entry \in AllEntries : add_initial_subtree(entry)
  \/ \E entry \in AllEntries : add_node(entry)
  \/ add_dependency_edges_line
  \/ add_dependency_edges_return
  \/ add_initial_subtree_return
  \/ main_populate_failed
  \/ main_collapse
  \/ main_trie
  \/ main_write

Spec == Init /\ [][Next]_vars

\* ------------------------------------------------------------------------
\* Direct calls of the Name Normalizer and the Include Resolver
\* ------------------------------------------------------------------------

MaxLen == 4

FnAlphabet == {"a", "B", "1", "_"}

\* the strings over FnAlphabet of length at most MaxLen
Identifiers == UNION { [1..n -> FnAlphabet] : n \in 0..MaxLen }

s_Test_cpp == <<"T", "e", "s", "t", ".", "c", "p", "p">>
s_txt == <<".", "t", "x", "t">>

NameSuffixes ==
  {s_test_cpp, s_test_cc, s_Test_cpp, s_cpp, s_cc, s_inl_h, s_h, s_txt}

FileNames == { b \o suf : b \in Identifiers, suf \in NameSuffixes }

p_FooBar == <<"F", "o", "o", "B", "a", "r">>
p_vector == <<"v", "e", "c", "t", "o", "r">>
p_boost == <<"b", "o", "o", "s", "t">>

IncludeDirs ==
  { <<>>, s_folly \o <<"/">>, (s_folly \o <<"/">>) \o (d_io \o <<"/">>),
    p_boost \o <<"/">> }

IncludeNames == {p_FooBar, p_vector, s_folly}

IncludeExts == {<<>>, s_h, s_inl_h}

IncludePaths ==
  { (d \o n) \o e : d \in IncludeDirs, n \in IncludeNames, e \in IncludeExts }

IncludeBare(P) == (s_include \o <<" ">>) \o P

p_HTTPServer == <<"H", "T", "T", "P", "S", "e", "r", "v", "e", "r">>
p_already_snake ==
  <<"a", "l", "r", "e", "a", "d", "y", "_", "s", "n", "a", "k", "e">>

ExampleIdentifiers == {p_HTTPServer, p_FooBar, p_already_snake}

p_Foo == <<"F", "o", "o">>
p_widget == <<"w", "i", "d", "g", "e", "t">>

\* base names in Pascal case and in snake case
BaseNames ==
  {p_Foo, p_widget, <<"B", "a">>, <<"a">>, <<"a", "_", "a">>}

\* the files of the unit with base name B, each with the role of its suffix
RoleVariants(B) ==
  { <<B \o s_h, "HEADER">>, <<B \o s_inl_h, "TEMPLATE">>,
    <<B \o s_cpp, "SOURCE">>, <<B \o s_cc, "SOURCE">>,
    <<B \o s_Test_cpp, "TEST">>, <<(B \o <<"_">>) \o s_test_cpp, "TEST">> }

ExampleFileNames == { v[1] : v \in UNION { RoleVariants(B) : B \in BaseNames } }

IncludeLines ==
  {l_plain}
    \cup { IncludeAngle(P) : P \in IncludePaths }
    \cup { IncludeQuote(P) : P \in IncludePaths }
    \cup { IncludeUnclosed(P) : P \in IncludePaths }
    \cup { IncludeQuoteUnclosed(P) : P \in IncludePaths }
    \cup { IncludeBare(P) : P \in IncludePaths }

FnInit ==
  /\ root = RootRelative
  /\ tree = << >>
  /\ stack = <<>>
  /\ heap = <<>>
  /\ store = {}
  /\ curr = NoCurr
  /\ pc = "fn"
  /\ signal = "none"
  /\ phases = <<>>
  /\ panic = "none"
  /\ fn_op = "none"
  /\ fn_arg \in ((Identifiers \cup ExampleIdentifiers)
                    \cup (FileNames \cup ExampleFileNames))
                  \cup IncludeLines
  /\ fn_res = NoRes

call_camel_to_snake ==
  /\ fn_op = "none"
  /\ fn_res' = [NoRes EXCEPT !.snake = camel_to_snake(fn_arg)]
  /\ fn_op' = "camel_to_snake"
  /\ UNCHANGED fn_arg
  /\ UNCHANGED graph_vars

\* the result of camel_to_snake is normalized once more
call_camel_to_snake_again ==
  /\ fn_op = "camel_to_snake"
  /\ fn_arg' = fn_res.snake
  /\ fn_res' = [NoRes EXCEPT !.snake = camel_to_snake(fn_res.snake)]
  /\ fn_op' = "camel_to_snake_again"
  /\ UNCHANGED graph_vars

call_strip_file_name ==
  /\ fn_op = "none"
  /\ fn_res' = [NoRes EXCEPT !.file = strip_file_name(fn_arg)]
  /\ fn_op' = "strip_file_name"
  /\ UNCHANGED fn_arg
  /\ UNCHANGED graph_vars

call_strip_include ==
  /\ fn_op = "none"
  /\ fn_res' = [NoRes EXCEPT !.include = strip_include(fn_arg)]
  /\ fn_op' = "strip_include"
  /\ UNCHANGED fn_arg
  /\ UNCHANGED graph_vars

FnNext ==
  \/ call_camel_to_snake
  \/ call_camel_to_snake_again
  \/ call_strip_file_name
  \/ call_strip_include

FnSpec == FnInit /\ [][FnNext]_vars

\* ------------------------------------------------------------------------
\* Views of the graph
\* ------------------------------------------------------------------------

Handles == DOMAIN heap

\* B is a member of the HashSet set (membership is by key)
Member(set, B) == set_contains(heap, set, heap[B].key)

\* the line add_dependency_edges is about to process
AtLine == pc = "populate" /\ curr # NoCurr
            /\ curr.line < Len(tree[curr.file].lines)

NextLine == tree[curr.file].lines[curr.line + 1]

\* the line add_dependency_edges processed last
LastLine == tree[curr.file].lines[curr.line]

\* ------------------------------------------------------------------------
\* Claims
\* ------------------------------------------------------------------------

\* C1: mirrored edges.  In every state of the tree walk and after it, for
\* all units A and B, B is in A.deps if and only if A is in B.reverse_deps.
C1_MirroredEdges ==
  \A A \in Handles, B \in Handles :
    Member(heap[A].deps, B) <=> Member(heap[B].reverse_deps, A)

\* C1 witness: the walk is over and two units include each other.
C1_Witness ==
  /\ pc = "populated"
  /\ \E A \in store, B \in store :
       /\ A # B
       /\ B \in heap[A].deps /\ A \in heap[B].reverse_deps
       /\ A \in heap[B].deps /\ B \in heap[A].reverse_deps

\* C2: de-duplication.  No two allocations carry the same key, so every
\* call of extract_with_create for a key returned the one handle of that key
\* and a payload written through it is the payload every holder reads; the
\* store holds every allocation, one per key; every handle in a deps or
\* reverse_deps set, and the handle add_node holds, is the store's node for
\* its key.
C2_Deduplicated ==
  /\ \A A \in Handles, B \in Handles : heap[A].key = heap[B].key => A = B
  /\ store = Handles
  /\ \A A \in Handles :
       \A D \in heap[A].deps \cup heap[A].reverse_deps :
         D \in store /\ D = set_get(heap, store, heap[D].key)
  /\ curr # NoCurr => curr.node \in store

\* C2 witness: one node was handed out for its header, for its source file
\* and as the include target of another unit.
C2_Witness ==
  \E A \in store :
    /\ Len(heap[A].headers) > 0
    /\ Len(heap[A].srcs) > 0
    /\ heap[A].reverse_deps # {}

\* C9: self-edge suppression.  No unit is a member of its own deps or of its
\* own reverse_deps, and a line whose include resolves to the key of the
\* unit owning the file changes neither the store nor any payload.
C9_NoSelfEdge ==
  /\ [](\A A \in Handles :
          ~Member(heap[A].deps, A) /\ ~Member(heap[A].reverse_deps, A))
  /\ [][ ( /\ AtLine
           /\ strip_include(NextLine).tag = "Some"
           /\ strip_include(NextLine).key = heap[curr.node].key )
         => (heap' = heap /\ store' = store) ]_vars

\* C9 witness: a file has just had an in-scope include of its own unit
\* processed.
C9_Witness ==
  /\ pc = "populate" /\ curr # NoCurr /\ curr.line >= 1
  /\ strip_include(LastLine).tag = "Some"
  /\ strip_include(LastLine).hlib = "FOLLY"
  /\ strip_include(LastLine).key = heap[curr.node].key

\* the names of the scenario units
n_foo == <<"f", "o", "o">>
n_bar == <<"b", "a", "r">>

HeaderFiles ==
  { e \in DOMAIN tree :
      strip_file_name(e[Len(e)]).file_type \in {"HEADER", "TEMPLATE"} }

\* the components of a file joined by '/'
RECURSIVE RelPath(_)
RelPath(e) ==
  IF Len(e) = 1 THEN e[1]
  ELSE path_join(RelPath(SubSeq(e, 1, Len(e) - 1)), e[Len(e)])

\* the key add_node builds for a file of the tree
AddNodeKey(e) ==
  UnitKey(strip_file_name(path_file_name(PathOf(e))).name,
          path_parent(PathOf(e)))

\* the key strip_include produces for an in-scope include of that file
IncludeKeyOf(e) == strip_include(IncludeAngle(InLib(RelPath(e)))).key

\* C4: for every root path and every header of the tree, once the walk is
\* over the store holds one node for the header's unit: a node created for
\* an include of the header is the node add_node filed the header under, so
\* it carries the file in headers next to the includer in reverse_deps.
C4_IncludeTargetIsFileUnit ==
  pc = "populated" =>
    \A e \in HeaderFiles :
      /\ Cardinality({ A \in store :
                         heap[A].key \in {AddNodeKey(e), IncludeKeyOf(e)} })
           <= 1
      /\ \A A \in store :
           (heap[A].key = IncludeKeyOf(e) /\ heap[A].reverse_deps # {})
             => \E i \in DOMAIN heap[A].headers :
                  heap[A].headers[i] = e[Len(e)]

\* the units reachable from the units of S along deps
RECURSIVE DepsClosure(_)
DepsClosure(S) ==
  LET T == S \cup UNION { heap[A].deps : A \in S }
  IN IF T = S THEN S ELSE DepsClosure(T)

HasCycle == \E A \in store : A \in DepsClosure(heap[A].deps)

\* C5: once collapse_cycles has returned success the deps relation has no
\* cycle, and the cycle A -> B -> C -> A with D -> A has become two units,
\* the merged one and D, with D depending on the merged unit only.
C5_CollapseYieldsDag ==
  pc = "collapsed" =>
    /\ ~HasCycle
    /\ (tree = CycleTree /\ root = RootRelative) =>
         \E M \in store, D \in store :
           /\ store = {M, D} /\ M # D
           /\ heap[D].deps = {M}
           /\ M \notin heap[M].deps

IdentChars ==
  {"_", "0", "1", "2", "3", "4", "5", "6", "7", "8", "9"}
    \cup {UpperChars[i] : i \in DOMAIN UpperChars}
    \cup {LowerChars[i] : i \in DOMAIN LowerChars}

IsIdentifier(str) == \A i \in DOMAIN str : str[i] \in IdentChars

\* C6: for every string of letters, digits and underscores, normalizing the
\* normalized string changes nothing, and a string without uppercase
\* letters is its own normalization.
C6_Idempotent ==
  /\ (fn_op = "camel_to_snake_again" /\ IsIdentifier(fn_arg))
       => fn_res.snake = fn_arg
  /\ ( /\ fn_op = "camel_to_snake" /\ IsIdentifier(fn_arg)
       /\ \A i \in DOMAIN fn_arg : ~IsUpper(fn_arg[i]) )
       => fn_res.snake = fn_arg

\* C7: a quoted include resolves like the angle-bracket include of the same
\* path, and never aborts.
C7_QuotedLikeAngle ==
  \A P \in IncludePaths :
    (fn_op = "strip_include" /\ fn_arg = IncludeQuote(P)) =>
      /\ fn_res.include.tag = "Some"
      /\ fn_res.include.key = strip_include(IncludeAngle(P)).key

\* the text of P up to the first '/'
LeadingSegment(P) ==
  IF find(P, "/") = NoPos THEN P ELSE Slice(P, 0, find(P, "/"))

\* C8: #include <P> is tagged in-scope exactly when the leading segment of P
\* is the library name, and an in-scope dir/Name.h or dir/Name-inl.h gives
\* the key {camel_to_snake(Name), dir}.
C8_AngleScopeAndKey ==
  /\ \A P \in IncludePaths :
       (fn_op = "strip_include" /\ fn_arg = IncludeAngle(P)) =>
         /\ fn_res.include.tag = "Some"
         /\ fn_res.include.hlib = "FOLLY" <=> LeadingSegment(P) = s_folly
  /\ \A d \in IncludeDirs \ {<<>>}, n \in IncludeNames, e \in {s_h, s_inl_h} :
       ( /\ fn_op = "strip_include"
         /\ fn_arg = IncludeAngle((d \o n) \o e)
         /\ fn_res.include.hlib = "FOLLY" )
         => fn_res.include.key
              = UnitKey(camel_to_snake(n), Slice(d, 0, Len(d) - 1))

\* C10: strip_file_name returns the role of the first suffix, in the order
\* test source, plain source, template header, plain header, that the name
\* ends with, and UNKNOWN when it ends with none.
C10_SuffixPriority ==
  fn_op = "strip_file_name" =>
    fn_res.file.file_type =
      IF ends_with(fn_arg, s_test_cpp) \/ ends_with(fn_arg, s_test_cc)
        THEN "TEST"
      ELSE IF ends_with(fn_arg, s_cpp) \/ ends_with(fn_arg, s_cc)
        THEN "SOURCE"
      ELSE IF ends_with(fn_arg, s_inl_h) THEN "TEMPLATE"
      ELSE IF ends_with(fn_arg, s_h) THEN "HEADER"
      ELSE "UNKNOWN"

\* C10 witness: a name like widget_test.cpp was classified as TEST.
C10_Witness ==
  /\ fn_op = "strip_file_name"
  /\ ends_with(fn_arg, <<"a", "_">> \o s_test_cpp)
  /\ fn_res.file.file_type = "TEST"

\* the strings of letters and digits
IsAlphanumeric(str) == \A i \in DOMAIN str : str[i] \in IdentChars \ {"_"}

\* a word of str starts at its i-th character, i > 1: the character is an
\* uppercase letter and follows a lowercase letter or a digit, or it is the
\* last letter of a run of two or more uppercase letters and a lowercase
\* letter follows it
WordBoundary(str, i) ==
  /\ i > 1
  /\ IsUpper(str[i])
  /\ \/ ~IsUpper(str[i - 1])
     \/ (i < Len(str) /\ IsLower(str[i + 1]))

\* str from its i-th character on, in lowercase, with one separator at
\* every word boundary
RECURSIVE SnakeFrom(_, _)
SnakeFrom(str, i) ==
  IF i > Len(str) THEN <<>>
  ELSE ((IF WordBoundary(str, i) THEN <<"_">> ELSE <<>>)
          \o <<LowerOf(str[i])>>) \o SnakeFrom(str, i + 1)

http_server == <<"h", "t", "t", "p", "_", "s", "e", "r", "v", "e", "r">>
foo_bar == <<"f", "o", "o", "_", "b", "a", "r">>

\* C11: for every identifier of letters and digits camel_to_snake returns
\* the identifier in lowercase with a separator exactly before an uppercase
\* letter that follows a lowercase letter or a digit and before the last
\* letter of an uppercase run of two or more that a lowercase letter
\* follows; HTTPServer becomes http_server, FooBar becomes foo_bar,
\* already_snake is unchanged, and the result never starts with a separator
\* nor has one after a leading capital that no capital follows.
C11_CamelBoundaries ==
  fn_op = "camel_to_snake" =>
    /\ IsAlphanumeric(fn_arg) =>
         /\ fn_res.snake = SnakeFrom(fn_arg, 1)
         /\ Len(fn_arg) >= 1 => fn_res.snake[1] # "_"
         /\ (Len(fn_arg) >= 2 /\ IsUpper(fn_arg[1]) /\ ~IsUpper(fn_arg[2]))
              => fn_res.snake[2] # "_"
    /\ fn_arg = p_HTTPServer => fn_res.snake = http_server
    /\ fn_arg = p_FooBar => fn_res.snake = foo_bar
    /\ fn_arg = p_already_snake => fn_res.snake = p_already_snake

\* C11 witness: an identifier with a digit before a capital and an
\* uppercase run before a lowercase letter was normalized.
C11_Witness ==
  /\ fn_op = "camel_to_snake"
  /\ fn_arg = <<"1", "B", "B", "a">>
  /\ fn_res.snake = <<"1", "_", "b", "_", "b", "a">>

\* the four phases in the order of main
PhaseOrder == <<"populate", "collapse", "trie", "write">>

IsPrefix(a, b) == Len(a) <= Len(b) /\ SubSeq(b, 1, Len(a)) = a

\* an include line with an opening '<' and no '>', or with no '<' and one
\* '"' only
Malformed(line) ==
  /\ starts_with(line, s_include)
  /\ \/ find(line, "<") # NoPos /\ find(line, ">") = NoPos
     \/ /\ find(line, "<") = NoPos
        /\ Cardinality({i \in DOMAIN line : line[i] = "\""}) = 1

\* the process has ended, by main's return or by a panic
RunEnded == pc \in {"done", "panicked"}

\* C12: the phases start in the order population, collapsing, hierarchy,
\* emission, each after the success of the one before; a run that ends
\* after a failed phase has printed the failure message of that phase and
\* started no later phase; a run that population ended, by a file that
\* cannot be read or by a malformed include, has printed the population
\* failure message; the success message is printed only after all four
\* phases.
C12_PhasesAndSignal ==
  /\ IsPrefix(phases, PhaseOrder)
  /\ signal = "success" => phases = PhaseOrder
  /\ signal = "populate_failed" => phases = SubSeq(PhaseOrder, 1, 1)
  /\ signal = "collapse_failed" => phases = SubSeq(PhaseOrder, 1, 2)
  /\ signal = "trie_failed" => phases = SubSeq(PhaseOrder, 1, 3)
  /\ signal = "write_failed" => phases = PhaseOrder
  /\ (pc = "done" /\ phases = SubSeq(PhaseOrder, 1, 1))
       => signal = "populate_failed"
  /\ (RunEnded /\ curr # NoCurr /\ Malformed(NextLine))
       => signal = "populate_failed"

\* C13: a step that processes a malformed include line ends the run there:
\* it adds no node and no edge, no step follows it, so no later line and no
\* later file is processed, and the run has not reported success.
C13_MalformedIsFatal ==
  /\ [][ (AtLine /\ Malformed(NextLine))
           => /\ pc' = "panicked"
              /\ heap' = heap /\ store' = store
              /\ stack' = stack /\ curr' = curr
              /\ signal' = signal /\ phases' = phases ]_vars
  /\ [][ pc # "panicked" ]_vars
  /\ [](pc = "panicked" => signal # "success")

\* C13 witness: the run ended at a malformed include that follows a good
\* line, with a line of the file and a file of the directory still unread.
C13_Witness ==
  /\ pc = "panicked" /\ curr # NoCurr
  /\ Malformed(NextLine)
  /\ find(NextLine, "<") = NoPos
  /\ curr.line >= 1
  /\ curr.line + 1 < Len(tree[curr.file].lines)
  /\ stack # <<>> /\ Top.todo # {}
  /\ signal = "none"

\* the text between the first '<' and the first '>' of a line
AnglePath(line) == Slice(line, find(line, "<") + 1, find(line, ">"))

\* an angle-bracket include whose scope root, the leading segment of its
\* path, is not the library
External(line) ==
  /\ starts_with(line, s_include)
  /\ find(line, "<") # NoPos
  /\ find(line, "<") < find(line, ">")
  /\ LeadingSegment(AnglePath(line)) # s_folly

\* C14: a step that processes an include whose scope root is not the
\* library changes neither the store nor any payload, and the next step
\* reads the next line of the file.
C14_ExternalAddsNothing ==
  [][ (AtLine /\ External(NextLine))
        => /\ heap' = heap /\ store' = store
           /\ pc' = pc
           /\ curr' = [curr EXCEPT !.line = @ + 1] ]_vars

\* the files of the tree that belong to a unit
ClassifiedFiles ==
  { e \in DOMAIN tree : strip_file_name(e[Len(e)]).file_type # "UNKNOWN" }

\* the keys of the in-scope includes of a file, its own unit left out
IncludedKeys(e) ==
  { strip_include(tree[e].lines[i]).key :
      i \in { j \in DOMAIN tree[e].lines :
                LET inc == strip_include(tree[e].lines[j])
                IN /\ inc.tag = "Some" /\ inc.hlib = "FOLLY"
                   /\ inc.key # AddNodeKey(e) } }

\* the files of the unit with key k
FilesOf(k) == { e \in ClassifiedFiles : AddNodeKey(e) = k }

\* the graph as a function of the tree and the root alone
ExpectedKeys ==
  { AddNodeKey(e) : e \in ClassifiedFiles }
    \cup UNION { IncludedKeys(e) : e \in ClassifiedFiles }

ExpectedDeps(k) == UNION { IncludedKeys(e) : e \in FilesOf(k) }

ExpectedReverseDeps(k) == { k2 \in ExpectedKeys : k \in ExpectedDeps(k2) }

ExpectedHeaders(k) ==
  { e[Len(e)] :
      e \in { f \in FilesOf(k) :
                strip_file_name(f[Len(f)]).file_type
                  \in {"HEADER", "TEMPLATE"} } }

ExpectedSrcs(k) ==
  { e[Len(e)] :
      e \in { f \in FilesOf(k) :
                strip_file_name(f[Len(f)]).file_type \in {"SOURCE", "TEST"} } }

KeysOf(set) == { heap[A].key : A \in set }

Range(q) == { q[i] : i \in DOMAIN q }

\* the members of S in one order, the same for every run
ReferenceList(S) == CHOOSE q \in [1..Cardinality(S) -> S] : Range(q) = S

\* C15: after the walk the keys, the deps and the reverse_deps are those
\* the tree determines, and every headers and srcs list is the same list in
\* every run, whatever order the files were visited in.
C15_OrderIndependent ==
  pc = "populated" =>
    /\ KeysOf(store) = ExpectedKeys
    /\ \A A \in store :
         /\ KeysOf(heap[A].deps) = ExpectedDeps(heap[A].key)
         /\ KeysOf(heap[A].reverse_deps) = ExpectedReverseDeps(heap[A].key)
         /\ heap[A].headers = ReferenceList(ExpectedHeaders(heap[A].key))
         /\ heap[A].srcs = ReferenceList(ExpectedSrcs(heap[A].key))

\* C16: when collapse_cycles has finished and the deps relation still has a
\* cycle, the run has ended with the collapsing failure message and the
\* hierarchy phase was not started.
C16_ResidualCycleReported ==
  (Len(phases) >= 2 /\ HasCycle) =>
    /\ phases = SubSeq(PhaseOrder, 1, 2)
    /\ pc = "done"
    /\ signal = "collapse_failed"

\* keys of the store and keys no node has
CandidateKeys ==
  KeysOf(Handles)
    \cup {UnitKey(n_foo, s_folly), UnitKey(n_bar, <<>>), NoKey}

\* C17: in every state of the store, extract_with_create with a key of the
\* store returns a handle of the store with that key and changes neither
\* the node set nor any payload; with a key not in the store it adds one
\* node with that key and the default payload, returns its handle and
\* leaves every other node as it was.
C17_GetOrCreate ==
  \A k \in CandidateKeys :
    LET r == extract_with_create(heap, store, k) IN
      IF \E m \in store : heap[m].key = k
        THEN /\ r.heap = heap /\ r.store = store
             /\ r.obj \in store /\ heap[r.obj].key = k
        ELSE /\ r.obj \notin store /\ r.store = store \cup {r.obj}
             /\ DOMAIN r.heap = DOMAIN heap \cup {r.obj}
             /\ \A n \in DOMAIN heap : r.heap[n] = heap[n]
             /\ r.heap[r.obj].key = k
             /\ r.heap[r.obj].headers = <<>> /\ r.heap[r.obj].srcs = <<>>
             /\ r.heap[r.obj].deps = {} /\ r.heap[r.obj].reverse_deps = {}

\* C17 witness: a node that holds a header, a source file and an edge was
\* handed out again, while a node for another key had to be created.
C17_Witness ==
  /\ pc = "populate"
  /\ \E A \in store :
       /\ Len(heap[A].headers) = 1 /\ Len(heap[A].srcs) = 1
       /\ heap[A].deps # {}
       /\ \E B \in heap[A].deps : B > A /\ Len(heap[B].headers) = 1

\* the heap with every payload mutably borrowed
AllBorrowed == [n \in DOMAIN heap |-> [heap[n] EXCEPT !.borrow = 0 - 1]]

\* C18: no borrow_mut of add_node or add_dependency_edges finds its cell
\* borrowed, no borrow outlives the statement that took it, and looking a
\* key up in the store or in an edge set, or inserting a handle, gives the
\* same result when every payload is mutably borrowed, so it borrows none.
C18_NoBorrowConflict ==
  /\ panic # "BorrowMutError"
  /\ \A n \in Handles : heap[n].borrow = 0
  /\ \A k \in CandidateKeys :
       /\ set_contains(AllBorrowed, store, k) = set_contains(heap, store, k)
       /\ \A n \in Handles :
            set_contains(AllBorrowed, heap[n].deps, k)
              = set_contains(heap, heap[n].deps, k)
  /\ \A n \in Handles, m \in Handles :
       set_insert(AllBorrowed, heap[n].reverse_deps, m)
         = set_insert(heap, heap[n].reverse_deps, m)

\* C18 witness: a file has just had its include of a unit processed that
\* already holds a file of its own and already depends on the includer.
C18_Witness ==
  /\ pc = "populate" /\ curr # NoCurr /\ curr.line >= 1
  /\ panic = "none"
  /\ strip_include(LastLine).tag = "Some"
  /\ \E D \in heap[curr.node].deps :
       /\ heap[D].key = strip_include(LastLine).key
       /\ Len(heap[D].headers) >= 1
       /\ curr.node \in heap[D].deps
       /\ curr.node \in heap[D].reverse_deps

\* a file name that ends with none of the role suffixes
Unclassifiable(file_name) ==
  \A suf \in {s_cpp, s_cc, s_inl_h, s_h} : ~ends_with(file_name, suf)

\* C19: the add_node step of a file whose name ends with no role suffix
\* creates no node, changes no payload, starts no reading of the file and
\* raises no failure: it only takes the file off the entries still to
\* visit, and the walk goes on; no headers or srcs list ever holds such a
\* name.
C19_UnknownSkipped ==
  /\ [][ \A entry \in AllEntries :
           (add_node(entry) /\ Unclassifiable(entry[Len(entry)]))
             => /\ heap' = heap /\ store' = store
                /\ curr' = NoCurr
                /\ pc' = "populate" /\ panic' = "none"
                /\ signal' = "none"
                /\ stack' = Visited(entry) ]_vars
  /\ [](\A n \in Handles :
          \A f \in Range(heap[n].headers) \cup Range(heap[n].srcs) :
            ~Unclassifiable(f))

\* C19 witness: a file without role suffix that cannot be opened was
\* visited first; the store is empty and other files are still to visit.
C19_Witness ==
  /\ pc = "populate" /\ curr = NoCurr /\ stack # <<>>
  /\ <<f_notes>> \in DOMAIN tree
  /\ ~tree[<<f_notes>>].readable
  /\ <<f_notes>> \notin Top.todo
  /\ Top.todo # {}
  /\ store = {} /\ heap = <<>>

\* C20: for every base name B, strip_file_name gives each of B.h, B-inl.h,
\* B.cpp, B.cc, BTest.cpp and B_test.cpp the unit name it gives B.h, which
\* is the normalized B, and the role of its suffix.
C20_RoleVariantsShareUnit ==
  fn_op = "strip_file_name" =>
    \A B \in BaseNames :
      \A v \in RoleVariants(B) :
        fn_arg = v[1] =>
          /\ fn_res.file.name = strip_file_name(B \o s_h).name
          /\ fn_res.file.name = camel_to_snake(B)
          /\ fn_res.file.file_type = v[2]
====
